---- MODULE Spec2Model ----
(***************************************************************************)
(* A model of the A/B test analyzer (src/src/ab_test_analysis.py), of the  *)
(* interpretation step of the dashboard (src/src/dashboard.py) and of the  *)
(* sample generation both the dashboard and src/src/generate_data.py do on *)
(* numpy's process-global random state.                                    *)
(*                                                                         *)
(* Floats are modelled as extended rationals <<n, d>>: d > 0 is the        *)
(* rational n/d in lowest terms, <<0,0>> is NaN, <<1,0>> is +inf and       *)
(* <<-1,0>> is -inf (numpy divides by zero with a warning, not an error).  *)
(* A p-value is the tail of a normal or chi-square(1) distribution, which  *)
(* has no closed form: it is modelled by the interval it falls in,         *)
(* relative to 0.05 and to 0.04995 (the value that '.4f' rounds to         *)
(* "0.0500"), decided exactly from the squared statistic.                  *)
(***************************************************************************)
EXTENDS Integers, Sequences, FiniteSets, TLC

\* ---------------------------------------------------------------- bounds
\* Longest sample enumerated for load_data.
MaxLen == 3
\* Longest sample enumerated when the caller keeps the reports it got.
HistLen == 1
\* Largest sample size per group a generating run is given.
MaxUsers == 2

\* ------------------------------------------------------ extended rationals
Abs(n) == IF n < 0 THEN -n ELSE n

Sgn(n) == IF n < 0 THEN -1 ELSE IF n > 0 THEN 1 ELSE 0

RECURSIVE GCD(_, _)
GCD(a, b) == IF b = 0 THEN a ELSE GCD(b, a % b)

NaN == <<0, 0>>
PosInf == <<1, 0>>
NegInf == <<-1, 0>>

IsNaN(x) == x = NaN
IsFinite(x) == x[2] > 0
IsInf(x) == x[2] = 0 /\ x[1] # 0

\* n/d in lowest terms, d > 0.
Norm(n, d) ==
    LET g == GCD(Abs(n), d)
    IN  <<Sgn(n) * (Abs(n) \div g), d \div g>>

FInt(n) == <<n, 1>>

FNeg(x) == <<-x[1], x[2]>>

\* The sign of a value that is not NaN.
FSgn(x) == Sgn(x[1])

FMul(x, y) ==
    IF IsNaN(x) \/ IsNaN(y) THEN NaN
    ELSE IF IsInf(x) \/ IsInf(y)
         THEN (IF FSgn(x) * FSgn(y) = 0 THEN NaN ELSE <<FSgn(x) * FSgn(y), 0>>)
    ELSE LET g1 == GCD(Abs(x[1]), y[2])
             g2 == GCD(Abs(y[1]), x[2])
         IN  Norm((x[1] \div g1) * (y[1] \div g2), (x[2] \div g2) * (y[2] \div g1))

FDiv(x, y) ==
    IF IsNaN(x) \/ IsNaN(y) THEN NaN
    ELSE IF IsInf(y) THEN (IF IsInf(x) THEN NaN ELSE FInt(0))
    ELSE IF y[1] = 0 THEN (IF FSgn(x) = 0 THEN NaN ELSE <<FSgn(x), 0>>)
    ELSE FMul(x, <<Sgn(y[1]) * y[2], Abs(y[1])>>)

FAdd(x, y) ==
    IF IsNaN(x) \/ IsNaN(y) THEN NaN
    ELSE IF IsInf(x) /\ IsInf(y) THEN (IF x = y THEN x ELSE NaN)
    ELSE IF IsInf(x) THEN x
    ELSE IF IsInf(y) THEN y
    ELSE LET g == GCD(x[2], y[2])
         IN  Norm(x[1] * (y[2] \div g) + y[1] * (x[2] \div g), (x[2] \div g) * y[2])

FSub(x, y) == FAdd(x, FNeg(y))

FAbs(x) == <<Abs(x[1]), x[2]>>

\* a/b < c/d for a, c >= 0 and b, d > 0, by the continued fractions of the two
\* (no product is formed, so nothing overflows).
RECURSIVE PosLess(_, _, _, _)
PosLess(a, b, c, d) ==
    LET qa == a \div b
        qc == c \div d
        ra == a % b
        rc == c % d
    IN  IF qa # qc THEN qa < qc
        ELSE IF rc = 0 THEN FALSE
        ELSE IF ra = 0 THEN TRUE
        ELSE PosLess(d, rc, b, ra)

\* x < y for two finite values.
FLess(x, y) ==
    IF x[1] < 0 /\ y[1] >= 0 THEN TRUE
    ELSE IF x[1] >= 0 /\ y[1] < 0 THEN FALSE
    ELSE IF x[1] >= 0 THEN PosLess(x[1], x[2], y[1], y[2])
    ELSE PosLess(-y[1], y[2], -x[1], x[2])

\* x == y as floats compare: NaN equals nothing.
FEq(x, y) == ~IsNaN(x) /\ ~IsNaN(y) /\ x = y

FMin(x, y) == IF FLess(y, x) THEN y ELSE x

\* The integer nearest to n/d (d > 0), ties to the even one.
RoundHalfEven(n, d) ==
    LET q == Abs(n) \div d
        r == Abs(n) % d
        up == 2 * r > d \/ (2 * r = d /\ q % 2 = 1)
    IN  Sgn(n) * (IF up THEN q + 1 ELSE q)

\* ------------------------------------------------------------- the samples
Binary == {0, 1}

SeqsUpTo(n) == UNION {[1..k -> Binary] : k \in 0..n}

\* A sample of n outcomes, the first k of them conversions.
Ones(k, n) == [i \in 1..n |-> IF i <= k THEN 1 ELSE 0]

\* The spec's scenario: 10 and 12 conversions out of 100.
Scenario100 == <<Ones(10, 100), Ones(12, 100)>>

\* A sample pair of the dashboard's size range (300 per group) whose z-test
\* p-value, 0.04996..., lies between 0.04995 and 0.05.
ScenarioEdge == <<Ones(134, 300), Ones(158, 300)>>

\* The fields before load_data: None (no sample holds -1).
None == <<-1>>

\* The config's significance level, 0.05.
DefaultAlpha == <<1, 20>>

\* --------------------------------------------------------- numpy and scipy
\* s[lo] + ... + s[hi], summed by halves (a recursion of logarithmic depth).
RECURSIVE SumRange(_, _, _)
SumRange(s, lo, hi) ==
    IF lo > hi THEN 0
    ELSE IF lo = hi THEN s[lo]
    ELSE LET mid == (lo + hi) \div 2
         IN  SumRange(s, lo, mid) + SumRange(s, mid + 1, hi)

np_sum(s) == SumRange(s, 1, Len(s))

\* np.mean: the sum over the length; NaN (with a warning) for an empty sample.
np_mean_ddof1(s) == FDiv(FInt(np_sum(s)), FInt(Len(s) - 1))

np_mean(s) == FDiv(FInt(np_sum(s)), FInt(Len(s)))

\* What a call returns, or the exception it raises.
Ret(v) == [exc |-> "none", val |-> v]
Raise(e) == [exc |-> e, val |-> <<>>]

\* 3.8414588... = 1.959964^2: a chi-square(1) statistic (a squared z) above it
\* has p < 0.05.
ChiSqAt05 == <<2039515, 530922>>
\* 3.8431364... = 1.960392^2: above it, p < 0.04995.
ChiSqAt04995 == <<3050724, 793811>>

\* The interval a p-value lies in, from the squared statistic: norm.sf(|z|)*2
\* and chi2.sf(z^2, 1) are the same decreasing function of z^2.
PValue(sq) ==
    IF ~IsFinite(sq) THEN (IF IsNaN(sq) THEN "nan" ELSE "p<0.04995")
    ELSE IF FLess(ChiSqAt04995, sq) THEN "p<0.04995"
    ELSE IF FLess(ChiSqAt05, sq) THEN "0.04995<=p<0.05"
    ELSE "p>=0.05"

\* scipy.stats.contingency.expected_freq of a 2x2 table o = <<<<a,b>>,<<c,d>>>>.
expected_freq(o) ==
    LET total == o[1][1] + o[1][2] + o[2][1] + o[2][2]
    IN  [i \in 1..2 |-> [j \in 1..2 |->
            FDiv(FInt((o[i][1] + o[i][2]) * (o[1][j] + o[2][j])), FInt(total))]]

\* scipy.stats.chi2_contingency on a 2x2 table, with Yates' correction: the
\* statistic and the p-value, or ValueError when an expected frequency is 0.
chi2_contingency(o) ==
    LET e == expected_freq(o)
        half == <<1, 2>>
        \* observed moved towards expected by min(0.5, |expected - observed|)
        adj(i, j) ==
            LET diff == FSub(e[i][j], FInt(o[i][j]))
            IN  IF IsNaN(diff) THEN NaN
                ELSE FAdd(FInt(o[i][j]), FMul(FMin(half, FAbs(diff)), FInt(FSgn(diff))))
        term(i, j) ==
            LET d == FSub(adj(i, j), e[i][j])
            IN  FDiv(FMul(d, d), e[i][j])
        chi2 == FAdd(FAdd(term(1, 1), term(1, 2)), FAdd(term(2, 1), term(2, 2)))
    IN  IF \E i \in 1..2, j \in 1..2 : FEq(e[i][j], FInt(0))
        THEN Raise("ValueError")
        ELSE Ret(<<chi2, PValue(chi2)>>)

\* statsmodels proportions_ztest for two samples: the z statistic, as its sign
\* and its square, and the two-sided p-value. Nothing is raised: a zero
\* variance or a zero sample size gives NaN.
proportions_ztest(count, nobs) ==
    LET prop1 == FDiv(FInt(count[1]), FInt(nobs[1]))
        prop2 == FDiv(FInt(count[2]), FInt(nobs[2]))
        diff == FSub(prop1, prop2)
        p_pooled == FDiv(FInt(count[1] + count[2]), FInt(nobs[1] + nobs[2]))
        nobs_fact == FAdd(FDiv(FInt(1), FInt(nobs[1])), FDiv(FInt(1), FInt(nobs[2])))
        var_ == FMul(FMul(p_pooled, FSub(FInt(1), p_pooled)), nobs_fact)
        zsq == FDiv(FMul(diff, diff), var_)
    IN  <<IF IsNaN(zsq) THEN 0 ELSE FSgn(diff), zsq, PValue(zsq)>>

\* ------------------------------------------------------------ formatting
\* f'{x:.1%}': the tenths of a percent nearest to x, or nan/inf as such.
\* (Python rounds the double nearest to 100*x, half to even.)
Percent(x) ==
    IF IsNaN(x) THEN <<"nan", 0>>
    ELSE IF IsInf(x) THEN <<"inf", FSgn(x)>>
    ELSE <<"num", RoundHalfEven(1000 * x[1], x[2])>>

\* f'{p:.4f}' of a p-value: every p in [0.04995, 0.05) prints as "0.0500".
Fixed4(p) ==
    IF p = "nan" THEN "nan"
    ELSE IF p = "p<0.04995" THEN "<0.0500"
    ELSE ">=0.0500"

\* float(s) < 0.05 for a string made by Fixed4 (float('nan') < 0.05 is False).
Fixed4Below05(s) == s = "<0.0500"

\* float(s.strip("%")) > 0 for a string made by Percent.
PercentPositive(s) ==
    IF s[1] = "nan" THEN FALSE
    ELSE IF s[1] = "inf" THEN s[2] > 0
    ELSE s[2] > 0

\* ------------------------------------------------------- ABTestAnalyzer
\* 2*arcsin(sqrt(a)) - 2*arcsin(sqrt(b)), kept as the pair <<a, b>> of the two
\* rates: arcsin and sqrt are increasing on [0,1], so the sign of the
\* difference is the sign of a - b, and x - x is 0 (written <<0, 0>> as rates).
AngleDiff(a, b) ==
    IF IsNaN(a) \/ IsNaN(b) THEN <<NaN, NaN>>
    ELSE IF a = b THEN <<FInt(0), FInt(0)>>
    ELSE <<a, b>>

HIsNaN(h) == IsNaN(h[1])
HNeg(h) == IF HIsNaN(h) THEN h ELSE AngleDiff(h[2], h[1])
HSgn(h) == IF HIsNaN(h) \/ h[1] = h[2] THEN 0 ELSE IF FLess(h[2], h[1]) THEN 1 ELSE -1

\* np.mean, np.sum and len all fail on None with TypeError.
Unloaded(c, t) == c = None \/ t = None

calculate_conversion_rates(c, t) ==
    IF Unloaded(c, t) THEN Raise("TypeError")
    ELSE Ret(<<np_mean(c), np_mean(t)>>)

contingency(c, t) ==
    <<<<np_sum(c), Len(c) - np_sum(c)>>, <<np_sum(t), Len(t) - np_sum(t)>>>>

perform_chi_square_test(c, t) ==
    IF Unloaded(c, t) THEN Raise("TypeError")
    ELSE chi2_contingency(contingency(c, t))

perform_z_test(c, t) ==
    IF Unloaded(c, t) THEN Raise("TypeError")
    ELSE Ret(proportions_ztest(<<np_sum(c), np_sum(t)>>, <<Len(c), Len(t)>>))

cohens_h_swapped(control_conversion, treatment_conversion) ==
    AngleDiff(control_conversion, treatment_conversion)

cohens_h(control_conversion, treatment_conversion) ==
    AngleDiff(treatment_conversion, control_conversion)

calculate_effect_size(c, t) ==
    IF Unloaded(c, t) THEN Raise("TypeError")
    ELSE Ret(cohens_h(np_mean(c), np_mean(t)))

Min(a, b) == IF a < b THEN a ELSE b

\* TTestPower().power(effect_size, nobs, alpha): a function of its three
\* arguments, kept as the triple of them.
calculate_power(c, t, a) ==
    IF Unloaded(c, t) THEN Raise("TypeError")
    ELSE Ret(<<calculate_effect_size(c, t).val, Min(Len(c), Len(t)), a>>)

relative_improvement_of_treatment(control_conversion, treatment_conversion) ==
    FDiv(FSub(treatment_conversion, control_conversion), treatment_conversion)

relative_improvement(control_conversion, treatment_conversion) ==
    FDiv(FSub(treatment_conversion, control_conversion), control_conversion)

generate_report(c, t, a) ==
    LET rates == calculate_conversion_rates(c, t)
        chi == perform_chi_square_test(c, t)
        z == perform_z_test(c, t)
        h == calculate_effect_size(c, t)
        pw == calculate_power(c, t, a)
    IN  IF rates.exc # "none" THEN rates
        ELSE IF chi.exc # "none" THEN chi
        ELSE IF z.exc # "none" THEN z
        ELSE IF h.exc # "none" THEN h
        ELSE IF pw.exc # "none" THEN pw
        ELSE Ret([control_rate |-> Percent(rates.val[1]),
                  treatment_rate |-> Percent(rates.val[2]),
                  relative_improvement |->
                      Percent(relative_improvement(rates.val[1], rates.val[2])),
                  chi2_p_value |-> Fixed4(chi.val[2]),
                  z_p_value |-> Fixed4(z.val[3]),
                  effect_size |-> h.val,
                  power |-> pw.val,
                  control_n |-> Len(c),
                  treatment_n |-> Len(t)])

\* dashboard.main, the interpretation of a report.
interpretation(report) ==
    IF Fixed4Below05(report.z_p_value)
    THEN (IF PercentPositive(report.relative_improvement)
          THEN "significant: improvement"
          ELSE "significant: decrease")
    ELSE "not significant"

\* --------------------------------------------------- numpy's global RNG
\* np.random is one generator per process. It is modelled by a small linear
\* congruential generator: seeding sets the state, every draw advances it, and
\* a Bernoulli draw of probability pct/100 is 1 when the new state, scaled to
\* [0,1), is below it.
rng_seed(seed) == seed % 16

rng_next(x) == (5 * x + 3) % 16

rng_bit(x, pct) == IF x * 100 < pct * 16 THEN 1 ELSE 0

\* np.random.binomial(1, pct/100, n) from state x: <<the state after, the draws>>.
RECURSIVE binomial(_, _, _)
binomial(x, pct, n) ==
    IF n = 0 THEN <<x, <<>>>>
    ELSE LET y == rng_next(x)
             rest == binomial(y, pct, n - 1)
         IN  <<rest[1], <<rng_bit(y, pct)>> \o rest[2]>>

\* The state after k draws whose values the samples do not depend on.
RECURSIVE rng_skip(_, _)
rng_skip(x, k) == IF k = 0 THEN x ELSE rng_skip(rng_next(x), k - 1)

\* ------------------------------------------------------------------ state
VARIABLES
    control_data,    \* self.control_data: None or a sequence of 0/1
    treatment_data,  \* self.treatment_data
    alpha,           \* self.alpha
    lastOp,          \* the method called last
    result,          \* what that call returned or raised
    lastLoad,        \* the arguments of the latest load_data call
    keep,            \* whether the caller holds on to the reports it gets
    returned,        \* the latest report the caller holds
    rng,             \* the state of numpy's global generator
    run              \* the generating runs hosted by the process

vars == <<control_data, treatment_data, alpha, lastOp, result, lastLoad, keep,
          returned, rng, run>>

analyzer_vars == <<control_data, treatment_data, alpha, lastOp, result, lastLoad,
                   keep, returned>>

NoResult == [exc |-> "unset", val |-> <<>>]

Runs == {1, 2}

\* The slider values (percent) and seeds the runs are given.
Rates == {10, 50}
Seeds == {42, 7}
Kinds == {"dashboard", "generate_ab_test_data"}

\* A run before its first step. The dashboard's seed is the literal 42.
NewRun(kind, control_rate, treatment_rate, n, seed) ==
    [kind |-> kind, pc |-> "seed", control_rate |-> control_rate,
     treatment_rate |-> treatment_rate, n |-> n, seed |-> seed,
     control |-> <<>>, treatment |-> <<>>,
     analyzer |-> <<None, None>>, report |-> NoResult]

RunInputs ==
    {NewRun("dashboard", c, t, n, 42) : c \in Rates, t \in Rates, n \in 1..MaxUsers}
    \cup {NewRun("generate_ab_test_data", c, t, n, sd) :
              c \in Rates, t \in Rates, n \in 1..MaxUsers, sd \in Seeds}

InitAnalyzer(k) ==
    /\ control_data = None
    /\ treatment_data = None
    /\ alpha = DefaultAlpha
    /\ lastOp = "__init__"
    /\ result = Ret(<<>>)
    /\ lastLoad = <<None, None>>
    /\ keep = k
    /\ returned = NoResult

Init ==
    /\ InitAnalyzer(FALSE)
    /\ rng = 0
    /\ run = [r \in Runs |-> NewRun("dashboard", 10, 10, 1, 42)]

InitHist ==
    /\ InitAnalyzer(TRUE)
    /\ rng = 0
    /\ run = [r \in Runs |-> NewRun("dashboard", 10, 10, 1, 42)]

\* The sample pairs load_data is called with.
Inputs == (SeqsUpTo(MaxLen) \X SeqsUpTo(MaxLen)) \cup {Scenario100, ScenarioEdge}

InputsHist == (SeqsUpTo(HistLen) \X SeqsUpTo(HistLen)) \cup {Scenario100}

LoadInputs == IF keep THEN InputsHist ELSE Inputs

\* The two fields after load_data(c, t) on an analyzer holding <<sc, st>>.
load_data_keeps_treatment(sc, st, c, t) == IF st = None THEN <<c, t>> ELSE <<c, st>>

load_data(sc, st, c, t) == <<c, t>>

do_load_data ==
    \E p \in LoadInputs :
        LET new == load_data(control_data, treatment_data, p[1], p[2])
        IN  /\ control_data' = new[1]
            /\ treatment_data' = new[2]
            /\ lastLoad' = p
            /\ lastOp' = "load_data"
            /\ result' = Ret(<<>>)
            /\ UNCHANGED <<alpha, keep, returned, rng, run>>

\* A statistic method: it reads the fields and assigns none.
Query(op, r) ==
    /\ lastOp' = op
    /\ result' = r
    /\ UNCHANGED <<control_data, treatment_data, alpha, lastLoad, keep, returned,
                   rng, run>>

do_calculate_conversion_rates ==
    Query("calculate_conversion_rates",
          calculate_conversion_rates(control_data, treatment_data))

do_perform_chi_square_test ==
    Query("perform_chi_square_test", perform_chi_square_test(control_data, treatment_data))

do_perform_z_test ==
    Query("perform_z_test", perform_z_test(control_data, treatment_data))

do_calculate_effect_size ==
    Query("calculate_effect_size", calculate_effect_size(control_data, treatment_data))

do_calculate_power_sets_alpha ==
    /\ lastOp' = "calculate_power"
    /\ result' = calculate_power(control_data, treatment_data, alpha)
    /\ alpha' = <<1, 100>>
    /\ UNCHANGED <<control_data, treatment_data, lastLoad, keep, returned, rng, run>>

do_calculate_power ==
    Query("calculate_power", calculate_power(control_data, treatment_data, alpha))

\* The report is built from the fields on every call; nothing is cached.
do_generate_report ==
    LET r == generate_report(control_data, treatment_data, alpha)
    IN  /\ lastOp' = "generate_report"
        /\ result' = r
        /\ returned' = IF keep /\ r.exc = "none" THEN r ELSE returned
        /\ UNCHANGED <<control_data, treatment_data, alpha, lastLoad, keep, rng, run>>

\* dashboard.main lines 120-137, on the report it has just been given.
do_main_interpretation ==
    /\ lastOp = "generate_report"
    /\ result.exc = "none"
    /\ lastOp' = "main_interpretation"
    /\ result' = Ret(interpretation(result.val))
    /\ UNCHANGED <<control_data, treatment_data, alpha, lastLoad, keep, returned,
                   rng, run>>

Next ==
    \/ do_load_data
    \/ do_calculate_conversion_rates
    \/ do_perform_chi_square_test
    \/ do_perform_z_test
    \/ do_calculate_effect_size
    \/ do_calculate_power
    \/ do_generate_report
    \/ do_main_interpretation

Spec == Init /\ [][Next]_vars

SpecHist == InitHist /\ [][Next]_vars

\* ------------------------------------------------------ generating runs
\* Two runs hosted by one process (Streamlit runs each session's script on a
\* thread of its own; any caller may do the same with generate_ab_test_data).
\* Each step is one statement of the run; the steps of the two interleave.
InitGen ==
    /\ InitAnalyzer(FALSE)
    /\ rng = 0
    /\ run \in [Runs -> RunInputs]

Step(r, new) ==
    /\ run' = [run EXCEPT ![r] = new]
    /\ UNCHANGED analyzer_vars

\* np.random.seed(42) / np.random.seed(seed)
run_seed(r) ==
    /\ run[r].pc = "seed"
    /\ rng' = rng_seed(run[r].seed)
    /\ Step(r, [run[r] EXCEPT !.pc =
                   IF run[r].kind = "dashboard" THEN "control" ELSE "timestamps"])

\* dashboard.main: control_data = np.random.binomial(1, control_rate, sample_size)
run_control(r) ==
    /\ run[r].pc = "control"
    /\ LET d == binomial(rng, run[r].control_rate, run[r].n)
       IN  /\ rng' = d[1]
           /\ Step(r, [run[r] EXCEPT !.pc = "treatment", !.control = d[2]])

\* dashboard.main: treatment_data = np.random.binomial(1, treatment_rate, sample_size)
run_treatment(r) ==
    /\ run[r].pc = "treatment"
    /\ LET d == binomial(rng, run[r].treatment_rate, run[r].n)
       IN  /\ rng' = d[1]
           /\ Step(r, [run[r] EXCEPT !.pc = "load", !.treatment = d[2]])

\* dashboard.main: analyzer = ABTestAnalyzer(); analyzer.load_data(...)
run_load(r) ==
    /\ run[r].pc = "load"
    /\ rng' = rng
    /\ Step(r, [run[r] EXCEPT !.pc = "report",
                   !.analyzer = load_data(None, None, run[r].control, run[r].treatment)])

\* dashboard.main: report = analyzer.generate_report()
run_report(r) ==
    /\ run[r].pc = "report"
    /\ rng' = rng
    /\ Step(r, [run[r] EXCEPT !.pc = "done",
                   !.report = generate_report(run[r].analyzer[1], run[r].analyzer[2],
                                              DefaultAlpha)])

\* generate_ab_test_data: three randint draws for each of the 2*n_users timestamps
run_timestamps(r) ==
    /\ run[r].pc = "timestamps"
    /\ rng' = rng_skip(rng, 3 * 2 * run[r].n)
    /\ Step(r, [run[r] EXCEPT !.pc = "conversions"])

\* generate_ab_test_data: one binomial draw per user, the control users first
run_conversions(r) ==
    /\ run[r].pc = "conversions"
    /\ LET c == binomial(rng, run[r].control_rate, run[r].n)
           t == binomial(c[1], run[r].treatment_rate, run[r].n)
       IN  /\ rng' = t[1]
           /\ Step(r, [run[r] EXCEPT !.pc = "done", !.control = c[2],
                          !.treatment = t[2]])

NextGen ==
    \E r \in Runs :
        \/ run_seed(r)
        \/ run_control(r)
        \/ run_treatment(r)
        \/ run_load(r)
        \/ run_report(r)
        \/ run_timestamps(r)
        \/ run_conversions(r)

SpecGen == InitGen /\ [][NextGen]_vars

\* ----------------------------------------------------------------- claims
StatOps == {"calculate_conversion_rates", "perform_chi_square_test", "perform_z_test",
            "calculate_effect_size", "calculate_power", "generate_report"}

Loaded == control_data # None /\ treatment_data # None

NonEmpty == Loaded /\ Len(control_data) > 0 /\ Len(treatment_data) > 0

\* The number of conversions of a sample, counted without np_sum.
Count(s) == Cardinality({i \in 1..Len(s) : s[i] = 1})

\* C1: load_data with an empty control or treatment sample fails with
\* InvalidInputError and stores nothing, so no statistic method ever runs on
\* an analyzer that holds an empty sample.
C1_EmptySampleRejectedAtLoad ==
    /\ (lastOp = "load_data" /\ (lastLoad[1] = <<>> \/ lastLoad[2] = <<>>))
           => (result.exc = "InvalidInputError"
               /\ control_data # lastLoad[1] /\ treatment_data # lastLoad[2])
    /\ lastOp \in StatOps => (control_data # <<>> /\ treatment_data # <<>>)

\* C2: on non-empty samples whose control rate is 0, generate_report fails
\* with DegenerateInputError (and so returns no report with a NaN or infinite
\* relative improvement).
C2_ZeroControlRateFails ==
    (lastOp = "generate_report" /\ NonEmpty /\ Count(control_data) = 0)
        => result.exc = "DegenerateInputError"

\* The row and column sums of the contingency table of the loaded samples.
TableSums ==
    {Len(control_data), Len(treatment_data),
     Count(control_data) + Count(treatment_data),
     Len(control_data) + Len(treatment_data)
         - Count(control_data) - Count(treatment_data)}

\* C3: perform_chi_square_test on loaded samples whose contingency table has
\* a zero row or column sum fails with DegenerateInputError; it returns no
\* (statistic, p-value) pair.
C3_DegenerateTableFails ==
    (lastOp = "perform_chi_square_test" /\ Loaded /\ 0 \in TableSums)
        => result.exc = "DegenerateInputError"

\* rate = Count(s)/Len(s), and 0 <= rate <= 1.
IsRateOf(rate, s) ==
    /\ rate[2] > 0
    /\ rate[1] * Len(s) = Count(s) * rate[2]
    /\ 0 <= rate[1]
    /\ rate[1] <= rate[2]

\* C4: on non-empty binary samples calculate_conversion_rates returns
\* (sum(control)/len(control), sum(treatment)/len(treatment)), each in [0,1].
C4_ConversionRates ==
    (lastOp = "calculate_conversion_rates" /\ NonEmpty)
        => /\ result.exc = "none"
           /\ IsRateOf(result.val[1], control_data)
           /\ IsRateOf(result.val[2], treatment_data)

C4_Witness ==
    /\ lastOp = "calculate_conversion_rates"
    /\ NonEmpty
    /\ result.val = <<<<1, 3>>, <<1, 2>>>>

\* shown is (treatment rate - control rate)/control rate of the loaded samples
\* as tenths of a percent, to the nearest.
IsImprovementShown(shown) ==
    LET num == Count(treatment_data) * Len(control_data)
                   - Count(control_data) * Len(treatment_data)
        den == Len(treatment_data) * Count(control_data)
    IN  /\ shown[1] = "num"
        /\ 2 * Abs(shown[2] * den - 1000 * num) <= den

ReportIsRight ==
    /\ result.exc = "none"
    /\ result.val.control_n = Len(control_data)
    /\ result.val.treatment_n = Len(treatment_data)
    /\ IsImprovementShown(result.val.relative_improvement)
    /\ lastLoad = Scenario100
           => /\ result.val.relative_improvement = <<"num", 200>>
              /\ result.val.control_n = 100
              /\ result.val.treatment_n = 100

\* C5, as claimed: for loaded samples with a non-zero control rate
\* generate_report returns a mapping with the two sample sizes and the
\* relative improvement (treatment - control)/control as a percentage with one
\* decimal; 20.0% and 100, 100 for 10 and 12 conversions out of 100. (Stated
\* for the non-empty samples the data model allows.)
C5_ReportForNonZeroControl ==
    (lastOp = "generate_report" /\ NonEmpty /\ Count(control_data) > 0) => ReportIsRight

\* C5, amended: the same, for loaded samples with a non-zero control rate
\* whose contingency table has no zero row or column sum (for the others
\* generate_report raises the chi-square test's ValueError).
C5_ReportForNonDegenerateTable ==
    (lastOp = "generate_report" /\ Loaded /\ Count(control_data) > 0
         /\ 0 \notin TableSums)
        => ReportIsRight

C5_Witness ==
    /\ lastOp = "generate_report"
    /\ lastLoad = Scenario100
    /\ result.exc = "none"
    /\ result.val.relative_improvement = <<"num", 200>>

\* C6: calculate_effect_size is antisymmetric in the two samples, 0 when both
\* arms hold the same sample, and positive exactly when the treatment rate is
\* greater than the control rate (non-empty binary samples).
C6_EffectSizeAntisymmetric ==
    (lastOp = "calculate_effect_size" /\ NonEmpty)
        => /\ result.exc = "none"
           /\ ~HIsNaN(result.val)
           /\ result.val = HNeg(calculate_effect_size(treatment_data, control_data).val)
           /\ control_data = treatment_data => HSgn(result.val) = 0
           /\ HSgn(result.val) = 1
                  <=> Count(treatment_data) * Len(control_data)
                          > Count(control_data) * Len(treatment_data)

C6_Witness ==
    /\ lastOp = "calculate_effect_size"
    /\ NonEmpty
    /\ HSgn(result.val) = 1
    /\ Len(control_data) # Len(treatment_data)

\* C7: only load_data changes the analyzer: a step of any statistic method,
\* returning or raising, leaves control_data, treatment_data and alpha (0.05)
\* as they were.
C7_OnlyLoadChangesState ==
    [][lastOp' \in StatOps
           => (/\ control_data' = control_data
               /\ treatment_data' = treatment_data
               /\ alpha' = alpha
               /\ alpha' = DefaultAlpha)]_vars

\* A statistic method that raised on loaded samples.
C7_Witness ==
    /\ lastOp = "generate_report"
    /\ result.exc = "ValueError"
    /\ Loaded
    /\ control_data = lastLoad[1]
    /\ alpha = DefaultAlpha

\* C8: load_data replaces both samples together and every report is computed
\* from the samples of the latest load_data call alone; a report the caller
\* holds is not changed by a later load_data.
C8_ReportFromLatestLoad ==
    /\ [](/\ <<control_data, treatment_data>> = lastLoad
          /\ lastOp = "generate_report"
                 => result = generate_report(lastLoad[1], lastLoad[2], DefaultAlpha))
    /\ [][lastOp' = "load_data" => returned' = returned]_vars

\* A second load_data after a report the caller still holds, of other samples.
C8_Witness ==
    /\ lastOp = "load_data"
    /\ returned.exc = "none"
    /\ returned.val.control_n # Len(control_data)

\* C9: the dashboard declares the result significant exactly when the z-test
\* p-value of the analyzer is below 0.05.
C9_SignificantIffPBelowAlpha ==
    lastOp = "main_interpretation"
        => ((result.val # "not significant")
               <=> perform_z_test(control_data, treatment_data).val[3]
                       \in {"p<0.04995", "0.04995<=p<0.05"})

Drawn(r) == run[r].pc \in {"load", "report", "done"}

\* C10: two runs given the same rates, sample size and seed produce identical
\* control and treatment samples, also when their steps interleave.
C10_SameInputsSameSamples ==
    \A r1, r2 \in Runs :
        (/\ Drawn(r1) /\ Drawn(r2)
         /\ run[r1].kind = run[r2].kind
         /\ run[r1].control_rate = run[r2].control_rate
         /\ run[r1].treatment_rate = run[r2].treatment_rate
         /\ run[r1].n = run[r2].n
         /\ run[r1].seed = run[r2].seed)
            => (/\ run[r1].control = run[r2].control
                /\ run[r1].treatment = run[r2].treatment)

====
